---- MODULE Spec2Model ----
(***************************************************************************)
(* EchoDeck video export pipeline.                                         *)
(*                                                                         *)
(* One video export job of server/routes.ts (POST export handler,          *)
(* processExportAsync, processVideoExport, cleanupVideoFiles) running      *)
(* against MemStorage (server/storage.ts), TTSService (services/tts.ts),   *)
(* SlideRenderer (services/slideRenderer.ts) and VideoAssemblyService      *)
(* (services/videoAssembly.ts).  Every external call (speech API, ffprobe, *)
(* puppeteer, ffmpeg) is a nondeterministic choice among its outcomes.     *)
(*                                                                         *)
(* Durations are whole seconds; a media file of duration 0 is one ffprobe  *)
(* reads no duration from.  A file path is a pair <<directory-kind,   *)
(* number>>; the Date.now() part of a file name is left out, one job       *)
(* never writing two files of one kind for one slide.                      *)
(***************************************************************************)
EXTENDS Integers, Sequences, FiniteSets, TLC

(***************************************************************************)
(* Bounds of the model.                                                    *)
(***************************************************************************)
MaxSlides == 2
MaxDuration == 2
MaxTransition == 1

(***************************************************************************)
(* Program constants.                                                      *)
(***************************************************************************)
maxRetries == 3

\* null / undefined of a string-valued field or argument
Null == "null"
\* null of a path-valued field (filePath) and of a number-valued one (fileSize)
NoPath == << >>
NoSize == << >>

TransitionTypes == {"none", "crossfade", "fade-to-black", "slide", "wipe"}
\* seconds of audio in a file the speech API returned: none that ffprobe can
\* read, the shortest clip, the longest clip
ClipDurations == {0, 1, MaxDuration}
\* progress.percent values the encoder reports while it runs
EncoderPercents == {50, 100}
\* lengths of a slide's narration text: below and above the skip threshold
TextLengths == {3, 10}

Min(a, b) == IF a < b THEN a ELSE b
Max(a, b) == IF a > b THEN a ELSE b
\* Math.floor(a / b) for a >= 0, b > 0
Floor(a, b) == a \div b

\* JavaScript's falsiness of a string | null | undefined value, as `x || y` reads it
Falsy(s) == s = Null \/ s = ""
\* JavaScript's falsiness of a number | null | undefined value
FalsySize(n) == n = NoSize \/ n = <<0>>

(***************************************************************************)
(* MemStorage: the export records.                                         *)
(***************************************************************************)
createExport(insertExport) ==
    [ presentationId |-> insertExport.presentationId,
      format         |-> insertExport.format,
      fileUrl        |-> IF Falsy(insertExport.fileUrl) THEN Null ELSE insertExport.fileUrl,
      filePath       |-> NoPath,
      fileSize       |-> NoSize,
      isReady        |-> insertExport.isReady,
      progress       |-> 0,
      phase          |-> "initializing",
      error          |-> Null ]

updateExportStatus_keepPhase(exp, id, isReady, fileUrl, errorMessage) ==
    IF id \notin DOMAIN exp THEN exp
    ELSE [exp EXCEPT ![id] =
            [@ EXCEPT !.isReady  = isReady,
                      !.fileUrl  = IF Falsy(fileUrl) THEN @ ELSE fileUrl,
                      !.error    = IF Falsy(errorMessage) THEN Null ELSE errorMessage,
                      !.progress = IF isReady THEN 100 ELSE @,
                      !.phase    = IF Falsy(errorMessage) THEN @ ELSE "error"]]

updateExportStatus_dropError(exp, id, isReady, fileUrl, errorMessage) ==
    IF id \notin DOMAIN exp THEN exp
    ELSE [exp EXCEPT ![id] =
            [@ EXCEPT !.isReady  = isReady,
                      !.fileUrl  = IF Falsy(fileUrl) THEN @ ELSE fileUrl,
                      !.error    = @,
                      !.progress = IF isReady THEN 100 ELSE @,
                      !.phase    = IF isReady THEN "complete"
                                   ELSE IF Falsy(errorMessage) THEN @ ELSE "error"]]

updateExportStatus(exp, id, isReady, fileUrl, errorMessage) ==
    IF id \notin DOMAIN exp THEN exp
    ELSE [exp EXCEPT ![id] =
            [@ EXCEPT !.isReady  = isReady,
                      !.fileUrl  = IF Falsy(fileUrl) THEN @ ELSE fileUrl,
                      !.error    = IF Falsy(errorMessage) THEN Null ELSE errorMessage,
                      !.progress = IF isReady THEN 100 ELSE @,
                      !.phase    = IF isReady THEN "complete"
                                   ELSE IF Falsy(errorMessage) THEN @ ELSE "error"]]

updateExportProgress(exp, id, progress, phase, message, error) ==
    IF id \notin DOMAIN exp THEN exp
    ELSE [exp EXCEPT ![id] =
            [@ EXCEPT !.progress = Max(0, Min(100, progress)),
                      !.phase    = IF Falsy(phase) THEN @ ELSE phase,
                      !.error    = IF Falsy(error) THEN @ ELSE error]]

updateExportFilePath(exp, id, filePath, fileSize) ==
    IF id \notin DOMAIN exp THEN exp
    ELSE [exp EXCEPT ![id] =
            [@ EXCEPT !.filePath = filePath,
                      !.fileSize = IF FalsySize(fileSize) THEN @ ELSE fileSize]]


(***************************************************************************)
(* State.                                                                  *)
(***************************************************************************)
VARIABLES
    exports,              \* MemStorage.exports: export id -> record
    response,             \* HTTP status the POST export request was answered with
    pc,                   \* position of the job's background task
    slides,               \* presentation.slides
    videoOptions,         \* the request's validated options, processVideoExport's videoOptions
    i,                    \* loop index of the running batch (0-based)
    attempt,              \* attempt number of the running retry loop
    narrationResults,     \* results of generatePresentationNarration
    ttsErrors,            \* errors.length of the running generatePresentationNarration
    slideImages,          \* results of renderPresentation
    renderErrors,         \* errors.length of the running renderPresentation
    browser,              \* SlideRenderer.browser: Null or "connected"
    slideVideoInputs,     \* processVideoExport's slideVideoInputs
    files,                \* the file system: existing path -> media duration
    jobProgress,          \* VideoAssemblyService.jobProgress: job id -> progress
    validatedTransitions, \* assemblePresentationVideo's validatedTransitions
    slideVideos,          \* assemblePresentationVideo's slideVideos
    totalDuration,        \* assemblePresentationVideo's totalDuration
    encoder,              \* the ffmpeg command last started: [running, percent, command, filters]
    videoResult,          \* what assemblePresentationVideo returned
    thrown,               \* message of the exception being propagated, or Null
    created,              \* history: narration and image files the job wrote
    failProgress,         \* history: the record's progress when the job failed
    lastError,            \* kind of the error the running retry loop caught last
    settings,             \* a VideoQualitySettings value under validation
    validated,            \* results of validating it once, twice
    engine,               \* the shared SlideRenderer.browser: an engine's number, 0 if none
    batches,              \* the renderPresentation calls of two jobs: batch -> frame
    closed,               \* history: <<engine, batch>> for an engine in use that a batch closed
    clock,                \* Date.now(), in milliseconds
    jobs,                 \* two export jobs naming their files: job -> frame
    access,               \* history: path -> the jobs that wrote, read or deleted it
    presets,              \* VIDEO_QUALITY_PRESETS as the process holds it: quality -> profile
    handed,               \* the last job's resolved options and the profile given to assembly
    speech,               \* one generateAudioWithRetry call: its text and the API input
    graph                 \* one buildCrossfadeFilters call: its arguments, loop state and chain

vars == << exports, response, pc, slides, videoOptions, i, attempt,
           narrationResults, ttsErrors, slideImages, renderErrors, browser,
           slideVideoInputs, files, jobProgress, validatedTransitions,
           slideVideos, totalDuration, encoder, videoResult, thrown, created,
           failProgress, lastError, settings, validated, engine, batches,
           closed, clock, jobs, access, presets, handed, speech, graph >>

inputVars  == << slides, videoOptions, response >>
loopVars   == << i, attempt >>
ttsVars    == << narrationResults, ttsErrors >>
renderVars == << slideImages, renderErrors >>
asmVars    == << jobProgress, validatedTransitions, slideVideos, totalDuration,
                 encoder, videoResult >>
histVars   == << created, failProgress >>
\* the state of one export job
jobVars    == << exports, response, pc, slides, videoOptions, i, attempt,
                 narrationResults, ttsErrors, slideImages, renderErrors,
                 browser, slideVideoInputs, files, jobProgress,
                 validatedTransitions, slideVideos, totalDuration, encoder,
                 videoResult, thrown, created, failProgress, lastError >>
\* the state of the units that are exercised on their own, outside a job
codecVars  == << settings, validated >>
rendererVars == << engine, batches, closed >>
pathVars   == << clock, jobs, access >>
presetVars == << presets, handed >>
pureVars   == << speech, graph >>
unitVars   == << codecVars, rendererVars, pathVars, presetVars, pureVars >>

\* randomUUID() of the one export record, and the presentation's id
exportId == 1
presentationId == 1

\* presentations of 0..MaxSlides slides, slide k having id k
SlideLists == { [k \in 1..n |-> [id |-> k]] : n \in 0..MaxSlides }

\* transition: the five types of the schema, with no transition time or the
\* longest one
TransitionSettings ==
    [type : TransitionTypes, duration : {0, MaxTransition}]

audioPath(slideId) == <<"tts_audio", slideId>>
imagePath(slideId) == <<"slide_images", slideId>>
slideVideoPath(k)  == <<"slide_video", k>>
concatListPath     == <<"concat_list", 0>>
outputPath         == <<"presentation_video", presentationId>>

existsSync(path) == path \in DOMAIN files
writeFile(fs, path, duration) ==
    [p \in DOMAIN fs \cup {path} |-> IF p = path THEN duration ELSE fs[p]]
unlink(fs, paths) == [p \in DOMAIN fs \ paths |-> fs[p]]

\* videoOptions while no processVideoExport runs
noOptions == [transition |-> [type |-> "crossfade", duration |-> 0]]

JobInit ==
    /\ exports = << >>
    /\ response = 0
    /\ pc = "idle"
    /\ slides \in SlideLists
    /\ videoOptions = noOptions
    /\ i = 0
    /\ attempt = 1
    /\ narrationResults = << >>
    /\ ttsErrors = 0
    /\ slideImages = << >>
    /\ renderErrors = 0
    /\ browser = Null
    /\ slideVideoInputs = << >>
    /\ files = << >>
    /\ jobProgress = << >>
    /\ validatedTransitions = noOptions.transition
    /\ slideVideos = << >>
    /\ totalDuration = 0
    /\ encoder = [running |-> FALSE, percent |-> 0, command |-> "none", filters |-> "none"]
    /\ videoResult = [videoPath |-> NoPath, totalDuration |-> 0]
    /\ thrown = Null
    /\ created = {}
    /\ failProgress = 0
    /\ lastError = "none"

\* a VideoQualitySettings value with no field set
noSettings == [videoCodec |-> Null, format |-> Null, preset |-> Null]

\* no settings are under validation
CodecIdle ==
    /\ settings = noSettings
    /\ validated = << >>

\* the two jobs of the renderer on its own
Batches == {"A", "B"}

\* no renderPresentation call is made on the shared renderer
RendererIdle ==
    /\ engine = 0
    /\ batches = [b \in Batches |-> [pc |-> "idle", slides |-> 0, i |-> 0,
                                     attempt |-> 1, page |-> 0, then |-> "none"]]
    /\ closed = {}

\* the two jobs of the temporary-file naming on its own
ExportJobs == {"A", "B"}

\* no job has named a file
PathIdle ==
    /\ clock = 0
    /\ jobs = [j \in ExportJobs |->
                 [pc |-> "idle", presentation |-> 1, n |-> 0, format |-> "mp4",
                  type |-> "none", i |-> 0, audio |-> << >>, images |-> << >>,
                  segments |-> << >>, out |-> NoPath]]
    /\ access = << >>

\* the three canned profiles (their codec, container and encoding speed)
VIDEO_QUALITY_PRESETS ==
    [quality \in {"high", "medium", "low"} |->
        [videoCodec |-> "libx264", format |-> "mp4",
         preset |-> CASE quality = "high" -> "slow"
                      [] quality = "medium" -> "medium"
                      [] quality = "low" -> "fast"]]

\* no job has asked for a profile
noJob == [quality |-> Null, format |-> Null, profile |-> noSettings]

\* the module is loaded, no job has run
PresetIdle ==
    /\ presets = VIDEO_QUALITY_PRESETS
    /\ handed = noJob

\* a text: the first chars characters of the slide's narration text,
\* followed by suffix
noText == [chars |-> 0, suffix |-> ""]

\* no speech call is being prepared
SpeechIdle == speech = [pc |-> "idle", text |-> noText, input |-> noText]

\* no filter graph is being built
GraphIdle ==
    graph = [pc |-> "idle", videoCount |-> 0, duration |-> 0, i |-> 0,
             currentVideoLabel |-> << "input", 0, "v" >>,
             currentAudioLabel |-> << "input", 0, "a" >>,
             filterChain |-> << >>]

PureIdle == SpeechIdle /\ GraphIdle

Init == JobInit /\ CodecIdle /\ RendererIdle /\ PathIdle /\ PresetIdle /\ PureIdle

\* An exception leaves processVideoExport (its catch rethrows) for the catch
\* of processExportAsync.
Throw(message) ==
    /\ pc' = "catch"
    /\ thrown' = message
    /\ failProgress' = exports[exportId].progress

\* The locals of processVideoExport after one of its steps: kept, or gone with
\* its frame when the step throws.
FrameAfterStep ==
    /\ videoOptions' = IF pc' = "catch" THEN noOptions ELSE videoOptions
    /\ narrationResults' = IF pc' = "catch" THEN << >> ELSE narrationResults
    /\ slideImages' = IF pc' = "catch" THEN << >> ELSE slideImages

(***************************************************************************)
(* POST /api/presentations/:id/export and processExportAsync, case video.  *)
(***************************************************************************)
PostExport ==
    /\ pc = "idle"
    /\ \E options \in [transition : TransitionSettings] :
          videoOptions' = options
    /\ exports' = (exportId :> createExport([presentationId |-> presentationId,
                                              format |-> "video",
                                              fileUrl |-> Null,
                                              isReady |-> FALSE]))
    /\ response' = 202
    /\ pc' = "processExportAsync"
    /\ UNCHANGED << slides, loopVars, ttsVars, renderVars, browser,
                    slideVideoInputs, files, asmVars, thrown, histVars >>
    /\ UNCHANGED << lastError, unitVars >>

StartVideoExport ==
    /\ pc = "processExportAsync"
    /\ exports' = updateExportProgress(exports, exportId, 10, "tts",
                                       "Starting video export", Null)
    /\ pc' = "processVideoExport"
    /\ UNCHANGED << inputVars, loopVars, ttsVars, renderVars, browser,
                    slideVideoInputs, files, asmVars, thrown, histVars >>
    /\ UNCHANGED << lastError, unitVars >>

(***************************************************************************)
(* processVideoExport, phase 1: narration                                  *)
(* (TTSService.generatePresentationNarration).                             *)
(***************************************************************************)
BeginNarration ==
    /\ pc = "processVideoExport"
    /\ IF Len(slides) = 0
       THEN /\ Throw("No slides found in presentation for video export")
            /\ UNCHANGED << exports, loopVars >>
       ELSE /\ exports' = updateExportProgress(exports, exportId, 15, "tts",
                                               "Generating audio narration...", Null)
            /\ i' = 0
            /\ attempt' = 1
            /\ pc' = "tts_loop"
            /\ UNCHANGED << thrown, failProgress >>
    /\ FrameAfterStep
    /\ UNCHANGED << slides, response, ttsErrors, renderErrors, browser,
                    slideVideoInputs, files, asmVars, created >>
    /\ UNCHANGED << lastError, unitVars >>

\* narrationText.length < 5: the slide is skipped
insufficientText(textLen) == textLen < 5

\* the loop head; the slide's narration text (speaker notes, or title and
\* bullet points) is read here
NarrateNextSlide ==
    /\ pc = "tts_loop"
    /\ i < Len(slides)
    /\ \E textLen \in TextLengths :
          IF insufficientText(textLen)
          THEN /\ i' = i + 1
               /\ pc' = "tts_loop"
          ELSE /\ i' = i
               /\ pc' = "tts_speech"
    /\ attempt' = 1
    /\ UNCHANGED << exports, inputVars, ttsVars, renderVars, browser,
                    slideVideoInputs, files, asmVars, thrown, histVars >>
    /\ lastError' = "none"
    /\ UNCHANGED unitVars

\* the catch of generateAudioWithRetry: retry on a rate-limit error while
\* attempt < maxRetries
ShouldRetrySpeech_anyError(isRateLimitError, n) == n < maxRetries

ShouldRetrySpeech(isRateLimitError, n) == isRateLimitError /\ n < maxRetries

\* isRateLimitError of the two kinds of failure of the speech API
isRateLimitError(error) == error = "rate_limit"

\* generateAudioWithRetry: one call of the speech API; lastError is the error
\* its catch block holds
SpeechCall ==
    /\ pc = "tts_speech"
    /\ \E outcome \in {"ok", "rate_limit", "error"} :
          CASE outcome = "ok" ->
                 \E d \in ClipDurations :
                    /\ files' = writeFile(files, audioPath(slides[i + 1].id), d)
                    /\ created' = created \cup {audioPath(slides[i + 1].id)}
                    /\ pc' = "tts_probe"
                    /\ attempt' = 1
                    /\ lastError' = "none"
                    /\ UNCHANGED << i, ttsErrors >>
            [] outcome # "ok"
               /\ ShouldRetrySpeech(isRateLimitError(outcome), attempt) ->
                    /\ attempt' = attempt + 1
                    /\ lastError' = outcome
                    /\ UNCHANGED << i, pc, files, created, ttsErrors >>
            [] OTHER ->
                    /\ ttsErrors' = ttsErrors + 1
                    /\ i' = i + 1
                    /\ attempt' = 1
                    /\ lastError' = outcome
                    /\ pc' = "tts_loop"
                    /\ UNCHANGED << files, created >>
    /\ UNCHANGED << exports, inputVars, narrationResults, renderVars, browser,
                    slideVideoInputs, asmVars, thrown, failProgress >>
    /\ UNCHANGED unitVars

\* ffprobe's metadata.format.duration is a number: media of duration 0 stands
\* for a file without a parseable duration
hasDuration(fs, path) == fs[path] > 0

\* generateSlideNarration: getAudioDuration of the file just written
ProbeNarration ==
    /\ pc = "tts_probe"
    /\ LET ok == hasDuration(files, audioPath(slides[i + 1].id))
       IN IF ok
          THEN /\ narrationResults' = Append(narrationResults,
                     [slideId   |-> slides[i + 1].id,
                      audioPath |-> audioPath(slides[i + 1].id),
                      duration  |-> files[audioPath(slides[i + 1].id)]])
               /\ UNCHANGED ttsErrors
          ELSE /\ ttsErrors' = ttsErrors + 1
               /\ UNCHANGED narrationResults
    /\ i' = i + 1
    /\ pc' = "tts_loop"
    /\ UNCHANGED << exports, inputVars, attempt, renderVars, browser,
                    slideVideoInputs, files, asmVars, thrown, histVars >>
    /\ UNCHANGED << lastError, unitVars >>

\* the test that ends a batch (narration or rendering): it raises when it
\* has no result and at least one error
batchFails_anyError(results, errors) == errors > 0
batchFails_never(results, errors) == FALSE

batchFails(results, errors) == Len(results) = 0 /\ errors > 0

\* the end of the batch and processVideoExport's check of its result
EndNarration ==
    /\ pc = "tts_loop"
    /\ i = Len(slides)
    /\ IF batchFails(narrationResults, ttsErrors) \/ Len(narrationResults) = 0
       THEN /\ Throw(IF batchFails(narrationResults, ttsErrors)
                     THEN "Failed to generate any narration"
                     ELSE "Failed to generate any audio narration for slides")
            /\ UNCHANGED exports
       ELSE /\ exports' = updateExportProgress(exports, exportId, 33, "tts",
                                               "Generated narration", Null)
            /\ pc' = "render_begin"
            /\ UNCHANGED << thrown, failProgress >>
    /\ ttsErrors' = 0
    /\ FrameAfterStep
    /\ UNCHANGED << slides, response, loopVars, renderErrors, browser,
                    slideVideoInputs, files, asmVars, created >>
    /\ lastError' = "none"
    /\ UNCHANGED unitVars

(***************************************************************************)
(* processVideoExport, phase 2: rendering                                  *)
(* (SlideRenderer.renderPresentationFromSlides / renderPresentation).      *)
(***************************************************************************)
BeginRendering ==
    /\ pc = "render_begin"
    /\ exports' = updateExportProgress(exports, exportId, 40, "rendering",
                                       "Rendering slides to images...", Null)
    /\ pc' = "render_launch"
    /\ UNCHANGED << inputVars, loopVars, ttsVars, renderVars, browser,
                    slideVideoInputs, files, asmVars, thrown, histVars >>
    /\ UNCHANGED << lastError, unitVars >>

\* renderPresentation: "Initialize browser once for all slides"; a failed
\* launch leaves through the finally block
LaunchBrowser ==
    /\ pc = "render_launch"
    /\ \E launched \in BOOLEAN :
          IF launched
          THEN /\ browser' = "connected"
               /\ i' = 0
               /\ attempt' = 1
               /\ pc' = "render_loop"
               /\ UNCHANGED << thrown, failProgress >>
          ELSE /\ Throw("Failed to launch the browser process")
               /\ UNCHANGED << browser, loopVars >>
    /\ FrameAfterStep
    /\ UNCHANGED << exports, slides, response, ttsErrors, renderErrors,
                    slideVideoInputs, files, asmVars, created >>
    /\ UNCHANGED << lastError, unitVars >>

RenderNextSlide ==
    /\ pc = "render_loop"
    /\ i < Len(slides)
    /\ attempt' = 1
    /\ lastError' = "none"
    /\ pc' = "render_slide"
    /\ UNCHANGED << exports, inputVars, i, ttsVars, renderVars, browser,
                    slideVideoInputs, files, asmVars, thrown, histVars >>
    /\ UNCHANGED unitVars

\* the catch of renderSlideWithRetry
ShouldRetryRender(isRetryableError, n) == n < maxRetries /\ isRetryableError

\* SlideRenderer.isRetryableError of the two kinds of failure of renderSlide
isRetryableRenderError(error) == error = "transient"

\* SlideRenderer.browser is Null when the field is null or holds an engine
\* that is no longer connected: getBrowser and closeBrowser treat the two alike.
\* getBrowser launches an engine unless a connected one is held.
needsLaunch(b) == b # "connected"

\* closeBrowser: a connected engine is closed and the field cleared
closeBrowser_keep(b) == b

closeBrowser(b) == IF b = "connected" THEN Null ELSE b

\* the engines a failed call of renderSlide may leave in the field: the one
\* it ran on, still connected or not; none if it had to launch and could not
enginesAfter(b) == {"connected", Null}

\* renderSlideWithRetry: one call of renderSlide (getBrowser, newPage,
\* setContent, screenshot), and closeBrowser before a retry
RenderAttempt ==
    /\ pc = "render_slide"
    /\ \E outcome \in {"ok", "transient", "fatal"} :
          CASE outcome = "ok" ->
                    /\ browser' = "connected"
                    /\ files' = writeFile(files, imagePath(slides[i + 1].id), 0)
                    /\ created' = created \cup {imagePath(slides[i + 1].id)}
                    /\ slideImages' = Append(slideImages,
                          [slideId   |-> slides[i + 1].id,
                           imagePath |-> imagePath(slides[i + 1].id)])
                    /\ i' = i + 1
                    /\ attempt' = 1
                    /\ lastError' = "none"
                    /\ pc' = "render_loop"
                    /\ UNCHANGED renderErrors
            [] outcome # "ok"
               /\ ShouldRetryRender(isRetryableRenderError(outcome), attempt) ->
                    /\ \E left \in enginesAfter(browser) :
                          browser' = closeBrowser(left)
                    /\ attempt' = attempt + 1
                    /\ lastError' = outcome
                    /\ UNCHANGED << i, pc, files, created, slideImages, renderErrors >>
            [] OTHER ->
                    /\ browser' \in enginesAfter(browser)
                    /\ renderErrors' = renderErrors + 1
                    /\ i' = i + 1
                    /\ attempt' = 1
                    /\ lastError' = outcome
                    /\ pc' = "render_loop"
                    /\ UNCHANGED << files, created, slideImages >>
    /\ UNCHANGED << exports, inputVars, ttsVars, slideVideoInputs, asmVars,
                    thrown, failProgress >>
    /\ UNCHANGED unitVars

\* the end of the batch, its finally block (closeBrowser), and
\* processVideoExport's check of the result
EndRendering ==
    /\ pc = "render_loop"
    /\ i = Len(slides)
    /\ browser' = closeBrowser(browser)
    /\ lastError' = "none"
    /\ IF batchFails(slideImages, renderErrors) \/ Len(slideImages) = 0
       THEN /\ Throw(IF batchFails(slideImages, renderErrors)
                     THEN "Failed to render any slides"
                     ELSE "Failed to render any slide images")
            /\ UNCHANGED exports
       ELSE /\ exports' = updateExportProgress(exports, exportId, 66, "rendering",
                                               "Rendered slide images", Null)
            /\ pc' = "assembly_begin"
            /\ UNCHANGED << thrown, failProgress >>
    /\ renderErrors' = 0
    /\ FrameAfterStep
    /\ UNCHANGED << slides, response, loopVars, ttsErrors, slideVideoInputs,
                    files, asmVars, created >>
    /\ UNCHANGED unitVars

(***************************************************************************)
(* processVideoExport, phase 3: pairing and assembly.                      *)
(***************************************************************************)
BeginAssembly ==
    /\ pc = "assembly_begin"
    /\ exports' = updateExportProgress(exports, exportId, 70, "assembly",
                                       "Assembling final video...", Null)
    /\ pc' = "pairing"
    /\ UNCHANGED << inputVars, loopVars, ttsVars, renderVars, browser,
                    slideVideoInputs, files, asmVars, thrown, histVars >>
    /\ UNCHANGED << lastError, unitVars >>

\* narrationResults.find(n => n.slideId === slideId): index of the first match, 0 if none
find(narrations, slideId) ==
    LET matches == { j \in 1..Len(narrations) : narrations[j].slideId = slideId }
    IN  IF matches = {} THEN 0
        ELSE CHOOSE j \in matches : \A m \in matches : j <= m

RECURSIVE matchFrom(_, _, _, _)
matchFrom(images, narrations, k, limit) ==
    IF k > limit THEN << >>
    ELSE LET image == images[k]
             n     == find(narrations, image.slideId)
         IN  (IF n = 0 THEN << >>
              ELSE << [imagePath |-> image.imagePath,
                       audioPath |-> narrations[n].audioPath,
                       duration  |-> narrations[n].duration] >>)
             \o matchFrom(images, narrations, k + 1, limit)

RECURSIVE matchByIndex(_, _, _)
matchByIndex(images, narrations, k) ==
    IF k > Min(Len(images), Len(narrations)) THEN << >>
    ELSE << [imagePath |-> images[k].imagePath,
             audioPath |-> narrations[k].audioPath,
             duration  |-> narrations[k].duration] >>
         \o matchByIndex(images, narrations, k + 1)

matchSlides_byIndex(images, narrations) == matchByIndex(images, narrations, 1)

matchSlides_allImages(images, narrations) ==
    matchFrom(images, narrations, 1, Len(images))

\* the loop that builds slideVideoInputs
matchSlides(images, narrations) ==
    matchFrom(images, narrations, 1, Min(Len(images), Len(narrations)))

PairSlides ==
    /\ pc = "pairing"
    /\ slideVideoInputs' = matchSlides(slideImages, narrationResults)
    /\ pc' = "paired"
    /\ UNCHANGED << exports, inputVars, loopVars, ttsVars, renderVars, browser,
                    files, asmVars, thrown, histVars >>
    /\ UNCHANGED << lastError, unitVars >>

\* slideVideoInputs.length === 0
CheckPairs ==
    /\ pc = "paired"
    /\ IF Len(slideVideoInputs) = 0
       THEN Throw("Failed to match slide images with narration audio")
       ELSE /\ pc' = "assemble"
            /\ UNCHANGED << thrown, failProgress >>
    /\ FrameAfterStep
    /\ UNCHANGED << exports, slides, response, loopVars, ttsErrors, renderErrors,
                    browser, slideVideoInputs, files, asmVars, created >>
    /\ UNCHANGED << lastError, unitVars >>

(***************************************************************************)
(* VideoAssemblyService.assemblePresentationVideo.                         *)
(***************************************************************************)
validateTransitionSettings_asRequested(transitionSettings) == transitionSettings

validateTransitionSettings(transitionSettings) ==
    IF transitionSettings.type \notin {"none", "crossfade", "fade-to-black"}
    THEN [transitionSettings EXCEPT !.type = "crossfade"]
    ELSE transitionSettings

\* updateJobProgress: the in-memory tracker
setJobProgress(tracker, jobId, progress, status) ==
    [j \in DOMAIN tracker \cup {jobId} |->
        IF j = jobId THEN [progress |-> progress, status |-> status] ELSE tracker[j]]

\* updateJobProgress: the tracker and the export record of the same id
updateJobProgress(jobId, progress, status) ==
    /\ jobProgress' = setJobProgress(jobProgress, jobId, progress, status)
    /\ exports' = updateExportProgress(exports, jobId, progress, "assembly", status, Null)

\* An exception inside the try block of assemblePresentationVideo.
AssemblyThrow(message) ==
    /\ pc' = "assembly_catch"
    /\ thrown' = message
    /\ failProgress' = exports[exportId].progress

\* processVideoExport calls assemblePresentationVideo with exportId as jobId
StartAssemble ==
    /\ pc = "assemble"
    /\ validatedTransitions' = validateTransitionSettings(videoOptions.transition)
    /\ updateJobProgress(exportId, 0, "processing")
    /\ slideVideos' = << >>
    /\ totalDuration' = 0
    /\ i' = 0
    /\ pc' = "asm_loop"
    /\ UNCHANGED << inputVars, attempt, ttsVars, renderVars, browser,
                    slideVideoInputs, files, encoder, videoResult, thrown, histVars >>
    /\ UNCHANGED << lastError, unitVars >>

\* Math.floor((i / n) * 30), in exact arithmetic
slideStartProgress(k, n) == Floor(k * 30, n)

\* Math.floor((i / n) * 30 + (slideProgress / n) * 30), in exact arithmetic
slideEncodeProgress(k, n, slideProgress) == Floor(k * 30 + slideProgress * 30, n)

\* a loop that leaves before its last slide
hasNextSlide_stopEarly(k, list) == k < Len(list) - 1

\* for (let i = 0; i < slides.length; i++)
hasNextSlide(k, list) == k < Len(list)

\* the loop head of step 1, and createSlideVideo up to its ffprobe call
ComposeNextSlide ==
    /\ pc = "asm_loop"
    /\ hasNextSlide(i, slideVideoInputs)
    /\ updateJobProgress(exportId, slideStartProgress(i, Len(slideVideoInputs)),
                         "creating-slide-videos")
    /\ pc' = "asm_probe"
    /\ UNCHANGED << inputVars, loopVars, ttsVars, renderVars, browser,
                    slideVideoInputs, files, validatedTransitions, slideVideos,
                    totalDuration, encoder, videoResult, thrown, histVars >>
    /\ UNCHANGED << lastError, unitVars >>

\* createSlideVideo: the existence checks and getAudioDuration
ProbeSlideAudio ==
    /\ pc = "asm_probe"
    /\ LET slide == slideVideoInputs[i + 1]
       IN  IF ~existsSync(slide.imagePath) \/ ~existsSync(slide.audioPath)
           THEN /\ AssemblyThrow("Video creation failed: file not found")
                /\ UNCHANGED << attempt, encoder >>
           ELSE IF hasDuration(files, slide.audioPath)
                  THEN /\ encoder' = [running |-> TRUE, percent |-> 0,
                                       command |-> "slide", filters |-> "none"]
                       /\ attempt' = 1
                       /\ pc' = "asm_encode"
                       /\ UNCHANGED << thrown, failProgress >>
                  ELSE /\ AssemblyThrow("Video creation failed: Failed to get audio duration")
                       /\ UNCHANGED << attempt, encoder >>
    /\ UNCHANGED << exports, inputVars, i, ttsVars, renderVars, browser,
                    slideVideoInputs, files, jobProgress, validatedTransitions,
                    slideVideos, totalDuration, videoResult, created >>
    /\ lastError' = "none"
    /\ UNCHANGED unitVars

\* fluent-ffmpeg emits 'progress' only while the command runs
progressMayFire_afterEnd(enc) == TRUE

progressMayFire(enc) == enc.running

\* the progress callback createSlideVideo is given
SlideEncodeProgress ==
    /\ encoder.command = "slide"
    /\ progressMayFire(encoder)
    /\ i < Len(slideVideoInputs)
    /\ \E percent \in EncoderPercents :
          /\ percent > encoder.percent
          /\ encoder' = [encoder EXCEPT !.percent = percent]
          /\ updateJobProgress(exportId,
                slideEncodeProgress(i, Len(slideVideoInputs), Min(percent, 100)),
                "creating-slide-encoding")
    /\ UNCHANGED << inputVars, pc, loopVars, ttsVars, renderVars, browser,
                    slideVideoInputs, files, validatedTransitions, slideVideos,
                    totalDuration, videoResult, thrown, histVars >>
    /\ UNCHANGED << lastError, unitVars >>

\* retryOperation: retry unless the error is not retryable or the attempts are used up
ShouldRetryEncode(isRetryableError, n) == ~(~isRetryableError \/ n = maxRetries)

\* isRetryableError of the two kinds of failure of an ffmpeg command
isRetryableError(error) == error = "transient"

\* the file system after the failed command: it may have left a partial file
afterFailure(fs, path) == { fs, writeFile(fs, path, 0) }

\* retryOperation: "Clean up partially written output file before retry"
cleanupPartial_keep(fs, path) == fs

cleanupPartial(fs, path) ==
    IF path \in DOMAIN fs THEN unlink(fs, {path}) ELSE fs

\* createVideoWithImageAndAudio under retryOperation: the ffmpeg command ends
\* or fails; then the output checks of createSlideVideo and the loop's tail
SlideEncodeFinished ==
    /\ pc = "asm_encode"
    /\ encoder.running
    /\ LET slide == slideVideoInputs[i + 1]
           out   == slideVideoPath(i)
       IN  \E outcome \in {"end", "transient", "fatal"} :
             CASE outcome = "end" ->
                    /\ files' = writeFile(files, out, files[slide.audioPath])
                    /\ slideVideos' = Append(slideVideos, out)
                    /\ totalDuration' = totalDuration + files[slide.audioPath]
                    /\ i' = i + 1
                    /\ attempt' = 1
                    /\ encoder' = [encoder EXCEPT !.running = FALSE, !.percent = 0]
                    /\ lastError' = "none"
                    /\ pc' = "asm_loop"
                    /\ UNCHANGED << thrown, failProgress >>
               [] outcome # "end"
                  /\ ShouldRetryEncode(isRetryableError(outcome), attempt) ->
                    /\ \E left \in afterFailure(files, out) :
                          files' = cleanupPartial(left, out)
                    /\ attempt' = attempt + 1
                    /\ lastError' = outcome
                    /\ encoder' = [running |-> TRUE, percent |-> 0,
                                    command |-> "slide", filters |-> "none"]
                    /\ UNCHANGED << pc, i, slideVideos, totalDuration,
                                    thrown, failProgress >>
               [] OTHER ->
                    /\ files' \in afterFailure(files, out)
                    /\ AssemblyThrow("Video creation failed: Video encoding failed")
                    /\ attempt' = 1
                    /\ lastError' = outcome
                    /\ encoder' = [encoder EXCEPT !.running = FALSE, !.percent = 0]
                    /\ UNCHANGED << i, slideVideos, totalDuration >>
    /\ UNCHANGED << exports, inputVars, ttsVars, renderVars, browser,
                    slideVideoInputs, jobProgress, validatedTransitions,
                    videoResult, created >>
    /\ UNCHANGED unitVars

adjustTotalDuration_flipped(total, n, transition) ==
    IF n > 1 /\ transition.type # "none"
    THEN IF transition.type = "crossfade"
         THEN total + (n - 1) * transition.duration
         ELSE total - (n - 1) * transition.duration
    ELSE total

\* "Fix transition duration math": crossfades overlap, other transitions add time
adjustTotalDuration(total, n, transition) ==
    IF n > 1 /\ transition.type # "none"
    THEN IF transition.type = "crossfade"
         THEN total - (n - 1) * transition.duration
         ELSE total + (n - 1) * transition.duration
    ELSE total

\* the filter graph of a join: "xfade" is the chain of xfade and acrossfade
\* filters, "concat" the concat filter over all inputs, "copy" the copy of
\* the one input
buildCrossfadeFilters(videoCount, duration) ==
    IF videoCount = 1 THEN "copy" ELSE "xfade"

buildFadeToBlackFilters(videoCount, duration) ==
    IF videoCount = 1 THEN "copy" ELSE "concat"

buildTransitionFilters(videoCount, transitionSettings) ==
    CASE transitionSettings.type = "crossfade" ->
            buildCrossfadeFilters(videoCount, transitionSettings.duration)
      [] transitionSettings.type = "fade-to-black" ->
            buildFadeToBlackFilters(videoCount, transitionSettings.duration)
      [] OTHER -> "concat"

\* a join that takes the filter graph whatever the count and type
joinStrategy_alwaysGraph(n, transition) == "filter-graph"

\* how step 2 joins the segments
joinStrategy(n, transition) ==
    IF n = 1 THEN "reencode"
    ELSE IF transition.type = "none" THEN "concat-demuxer" ELSE "filter-graph"

\* the end of step 1, the duration math, and the start of step 2's ffmpeg
\* command (reencodeVideo or concatenateVideosWithTransitions)
StartConcatenation ==
    /\ pc = "asm_loop"
    /\ ~hasNextSlide(i, slideVideoInputs)
    /\ totalDuration' = adjustTotalDuration(totalDuration, Len(slideVideoInputs),
                                            validatedTransitions)
    /\ updateJobProgress(exportId, 30, "concatenating-videos")
    /\ files' = IF joinStrategy(Len(slideVideos), validatedTransitions) = "concat-demuxer"
                THEN writeFile(files, concatListPath, 0)
                ELSE files
    /\ encoder' = [running |-> TRUE, percent |-> 0, command |-> "join",
                    filters |-> IF joinStrategy(Len(slideVideos), validatedTransitions)
                                     = "filter-graph"
                                THEN buildTransitionFilters(Len(slideVideos),
                                                            validatedTransitions)
                                ELSE "none"]
    /\ i' = 0
    /\ pc' = "asm_concat"
    /\ UNCHANGED << inputVars, attempt, ttsVars, renderVars, browser,
                    slideVideoInputs, validatedTransitions, slideVideos,
                    videoResult, thrown, histVars >>
    /\ UNCHANGED << lastError, unitVars >>

\* 30 + Math.floor(progress * 0.7)
concatProgress(percent) == 30 + Floor(percent * 7, 10)

\* the progress callback concatenateVideosWithTransitions is given
\* (reencodeVideo registers none)
ConcatProgress ==
    /\ encoder.command = "join"
    /\ progressMayFire(encoder)
    /\ joinStrategy(Len(slideVideos), validatedTransitions) # "reencode"
    /\ \E percent \in EncoderPercents :
          /\ percent > encoder.percent
          /\ encoder' = [encoder EXCEPT !.percent = percent]
          /\ updateJobProgress(exportId, concatProgress(percent), "concatenating-videos")
    /\ UNCHANGED << inputVars, pc, loopVars, ttsVars, renderVars, browser,
                    slideVideoInputs, files, validatedTransitions, slideVideos,
                    totalDuration, videoResult, thrown, histVars >>
    /\ UNCHANGED << lastError, unitVars >>

\* the ffmpeg command of step 2 ends or fails (no retryOperation around it);
\* the concat list is unlinked either way
ConcatFinished ==
    /\ pc = "asm_concat"
    /\ encoder.running
    /\ encoder' = [encoder EXCEPT !.running = FALSE, !.percent = 0]
    /\ \E outcome \in {"end", "transient", "fatal"} :
          IF outcome = "end"
          THEN /\ files' = writeFile(unlink(files, {concatListPath}), outputPath,
                                     totalDuration)
               /\ lastError' = "none"
               /\ pc' = "asm_cleanup"
               /\ UNCHANGED << thrown, failProgress >>
          ELSE /\ \E partial \in BOOLEAN :
                     files' = IF partial
                              THEN writeFile(unlink(files, {concatListPath}), outputPath, 0)
                              ELSE unlink(files, {concatListPath})
               /\ AssemblyThrow("Video concatenation failed")
               /\ lastError' = outcome
    /\ UNCHANGED << exports, inputVars, loopVars, ttsVars, renderVars, browser,
                    slideVideoInputs, jobProgress, validatedTransitions,
                    slideVideos, totalDuration, videoResult, created >>
    /\ UNCHANGED unitVars

Range(seq) == { seq[k] : k \in 1..Len(seq) }

\* step 3: cleanupTemporaryFiles(slideVideos)
CleanupSegments ==
    /\ pc = "asm_cleanup"
    /\ updateJobProgress(exportId, 95, "cleaning-up")
    /\ files' = unlink(files, Range(slideVideos))
    /\ pc' = "asm_verify"
    /\ UNCHANGED << inputVars, loopVars, ttsVars, renderVars, browser,
                    slideVideoInputs, validatedTransitions, slideVideos,
                    totalDuration, encoder, videoResult, thrown, histVars >>
    /\ UNCHANGED << lastError, unitVars >>

\* "Verify final output", the last progress update and the return
CompleteAssembly ==
    /\ pc = "asm_verify"
    /\ IF ~existsSync(outputPath)
       THEN /\ AssemblyThrow("Final presentation video was not created")
            /\ UNCHANGED << exports, jobProgress, videoResult >>
       ELSE /\ updateJobProgress(exportId, 100, "completed")
            /\ videoResult' = [videoPath |-> outputPath, totalDuration |-> totalDuration]
            /\ pc' = "cleanup_files"
            /\ UNCHANGED << thrown, failProgress >>
    /\ UNCHANGED << inputVars, loopVars, ttsVars, renderVars, browser,
                    slideVideoInputs, files, validatedTransitions, slideVideos,
                    totalDuration, encoder, created >>
    /\ UNCHANGED << lastError, unitVars >>

\* the catch block of assemblePresentationVideo; processVideoExport's catch
\* rethrows: the frames of both are left
AssemblyCatch ==
    /\ pc = "assembly_catch"
    /\ updateJobProgress(exportId, 0, "error")
    /\ thrown' = "Video assembly failed: " \o thrown
    /\ pc' = "catch"
    /\ FrameAfterStep
    /\ slideVideoInputs' = << >>
    /\ validatedTransitions' = noOptions.transition
    /\ slideVideos' = << >>
    /\ totalDuration' = 0
    /\ i' = 0
    /\ attempt' = 1
    /\ UNCHANGED << slides, response, ttsErrors, renderErrors, browser, files,
                    encoder, videoResult, histVars >>
    /\ lastError' = "none"
    /\ UNCHANGED unitVars

(***************************************************************************)
(* processVideoExport after assembly, and the tail of processExportAsync.  *)
(***************************************************************************)
\* cleanupVideoFiles(narrationResults.map(n => n.audioPath), slideImages.map(s => s.imagePath))
cleanupVideoFiles(fs, audioPaths, imagePaths) ==
    unlink(fs, Range(audioPaths) \cup Range(imagePaths))

CleanupVideoFiles ==
    /\ pc = "cleanup_files"
    /\ files' = cleanupVideoFiles(files,
                   [k \in 1..Len(narrationResults) |-> narrationResults[k].audioPath],
                   [k \in 1..Len(slideImages) |-> slideImages[k].imagePath])
    /\ pc' = "record_path"
    /\ UNCHANGED << exports, inputVars, loopVars, ttsVars, renderVars, browser,
                    slideVideoInputs, asmVars, thrown, histVars >>
    /\ UNCHANGED << lastError, unitVars >>

RecordFilePath ==
    /\ pc = "record_path"
    /\ exports' = updateExportFilePath(exports, exportId, videoResult.videoPath, NoSize)
    /\ pc' = "record_size"
    /\ UNCHANGED << inputVars, loopVars, ttsVars, renderVars, browser,
                    slideVideoInputs, files, asmVars, thrown, histVars >>
    /\ UNCHANGED << lastError, unitVars >>

\* fs.statSync(videoPath).size of a written video
statSize(fs, path) == <<1>>

RecordFileSize ==
    /\ pc = "record_size"
    /\ exports' = IF existsSync(videoResult.videoPath)
                  THEN updateExportFilePath(exports, exportId, videoResult.videoPath,
                                            statSize(files, videoResult.videoPath))
                  ELSE exports
    /\ pc' = "mark_completed"
    /\ UNCHANGED << inputVars, loopVars, ttsVars, renderVars, browser,
                    slideVideoInputs, files, asmVars, thrown, histVars >>
    /\ UNCHANGED << lastError, unitVars >>

MarkCompleted ==
    /\ pc = "mark_completed"
    /\ exports' = updateExportProgress(exports, exportId, 100, "completed",
                                       "Export completed successfully", Null)
    /\ pc' = "mark_ready"
    /\ UNCHANGED << inputVars, loopVars, ttsVars, renderVars, browser,
                    slideVideoInputs, files, asmVars, thrown, histVars >>
    /\ UNCHANGED << lastError, unitVars >>

MarkReady ==
    /\ pc = "mark_ready"
    /\ exports' = updateExportStatus(exports, exportId, TRUE, "/api/exports/download", Null)
    /\ pc' = "done"
    /\ UNCHANGED << inputVars, loopVars, ttsVars, renderVars, browser,
                    slideVideoInputs, files, asmVars, thrown, histVars >>
    /\ UNCHANGED << lastError, unitVars >>

\* the catch block of processExportAsync, first statement
CatchProgress ==
    /\ pc = "catch"
    /\ exports' = updateExportProgress(exports, exportId, 0, "error",
                                       "Failed: " \o thrown, Null)
    /\ pc' = "catch_status"
    /\ UNCHANGED << inputVars, loopVars, ttsVars, renderVars, browser,
                    slideVideoInputs, files, asmVars, thrown, histVars >>
    /\ UNCHANGED << lastError, unitVars >>

\* the catch block of processExportAsync, second statement
CatchStatus ==
    /\ pc = "catch_status"
    /\ exports' = updateExportStatus(exports, exportId, FALSE, Null, "Error: " \o thrown)
    /\ pc' = "done"
    /\ UNCHANGED << inputVars, loopVars, ttsVars, renderVars, browser,
                    slideVideoInputs, files, asmVars, thrown, histVars >>
    /\ UNCHANGED << lastError, unitVars >>

Next ==
    \/ PostExport
    \/ StartVideoExport
    \/ BeginNarration
    \/ NarrateNextSlide
    \/ SpeechCall
    \/ ProbeNarration
    \/ EndNarration
    \/ BeginRendering
    \/ LaunchBrowser
    \/ RenderNextSlide
    \/ RenderAttempt
    \/ EndRendering
    \/ BeginAssembly
    \/ PairSlides
    \/ CheckPairs
    \/ StartAssemble
    \/ ComposeNextSlide
    \/ ProbeSlideAudio
    \/ SlideEncodeProgress
    \/ SlideEncodeFinished
    \/ StartConcatenation
    \/ ConcatProgress
    \/ ConcatFinished
    \/ CleanupSegments
    \/ CompleteAssembly
    \/ AssemblyCatch
    \/ CleanupVideoFiles
    \/ RecordFilePath
    \/ RecordFileSize
    \/ MarkCompleted
    \/ MarkReady
    \/ CatchProgress
    \/ CatchStatus

Spec == Init /\ [][Next]_vars

\* Every external call returns or fails, and the event loop runs the job's
\* continuation: a step that is possible is eventually taken.
FairSpec == Spec /\ WF_vars(Next)

(***************************************************************************)
(* The codec/container validator on its own.                               *)
(***************************************************************************)
\* container -> the video codecs it accepts
CODEC_CONTAINER_COMPATIBILITY ==
    [format \in {"mp4", "avi", "mov", "mkv"} |->
        CASE format = "mp4" -> {"libx264", "libx265", "h264_nvenc"}
          [] format = "avi" -> {"libxvid", "mjpeg"}
          [] format = "mov" -> {"libx264", "libx265", "h264_nvenc", "prores"}
          [] format = "mkv" -> {"libx264", "libx265", "h264_nvenc"}]

SAFE_CODEC_FALLBACKS_defaultAvi ==
    [key \in {"avi", "default"} |->
        IF key = "avi" THEN [videoCodec |-> "libxvid", format |-> "avi"]
                       ELSE [videoCodec |-> "libx264", format |-> "avi"]]

SAFE_CODEC_FALLBACKS ==
    [key \in {"avi", "default"} |->
        IF key = "avi" THEN [videoCodec |-> "libxvid", format |-> "avi"]
                       ELSE [videoCodec |-> "libx264", format |-> "mp4"]]

\* Names every object literal inherits from Object.prototype: indexing one of
\* the two tables by such a name yields the inherited member, not undefined.
ObjectPrototypeKeys == {"constructor", "toString", "__proto__"}

\* what a call did: returned a value, or threw
Returned(value) == [error |-> Null, value |-> value]
Threw(error)    == [error |-> error, value |-> noSettings]

\* the requested container and codec with their defaults
requestedFormat(s) == IF Falsy(s.format) THEN "mp4" ELSE s.format
requestedCodec(s)  == IF Falsy(s.videoCodec) THEN "libx264" ELSE s.videoCodec

\* SAFE_CODEC_FALLBACKS[format] || SAFE_CODEC_FALLBACKS.default
safeFallback(format) ==
    IF format \in DOMAIN SAFE_CODEC_FALLBACKS
    THEN SAFE_CODEC_FALLBACKS[format]
    ELSE SAFE_CODEC_FALLBACKS["default"]

validateCodecContainerCompatibility(s) ==
    LET format   == requestedFormat(s)
        codec    == requestedCodec(s)
        fallback == safeFallback(format)
        replaced == [s EXCEPT !.videoCodec = fallback.videoCodec,
                              !.format = fallback.format]
    IN  IF format \in DOMAIN CODEC_CONTAINER_COMPATIBILITY
        THEN IF codec \in CODEC_CONTAINER_COMPATIBILITY[format]
             THEN Returned(s)
             ELSE Returned(replaced)
        ELSE IF format \in ObjectPrototypeKeys
        \* compatibleCodecs is the inherited member: truthy, and its includes
        \* is undefined, so the call of it throws
        THEN Threw("TypeError")
        ELSE Returned(replaced)

\* containers: unset, empty, the four of the table, one outside it, the key of
\* the default fallback, and a name inherited from Object.prototype
Formats == {Null, "", "mp4", "avi", "mov", "mkv", "webm", "default", "constructor"}
\* codecs: unset, the six of the table, and one outside it
VideoCodecs == {Null, "libx264", "libx265", "h264_nvenc", "libxvid", "mjpeg",
                "prores", "vp9"}
Profiles == [videoCodec : VideoCodecs, format : Formats, preset : {Null, "slow"}]

\* a caller holds some settings; no job runs
CodecInit ==
    /\ JobInit
    /\ slides = << >>
    /\ settings \in Profiles
    /\ validated = << >>
    /\ RendererIdle
    /\ PathIdle
    /\ PresetIdle
    /\ PureIdle

\* validate(p)
ValidateSettings ==
    /\ validated = << >>
    /\ validated' = << validateCodecContainerCompatibility(settings) >>
    /\ UNCHANGED << jobVars, settings, rendererVars, pathVars, presetVars, pureVars >>

\* validate(validate(p)): the inner call's exception leaves the outer one too
ValidateAgain ==
    /\ Len(validated) = 1
    /\ validated' = Append(validated,
                       IF validated[1].error # Null
                       THEN validated[1]
                       ELSE validateCodecContainerCompatibility(validated[1].value))
    /\ UNCHANGED << jobVars, settings, rendererVars, pathVars, presetVars, pureVars >>

CodecNext == ValidateSettings \/ ValidateAgain

CodecSpec == CodecInit /\ [][CodecNext]_vars

(***************************************************************************)
(* The slide renderer shared by two export jobs.  routes.ts constructs one  *)
(* SlideRenderer for the process; every job's renderPresentation call runs  *)
(* on its browser field.  A step is the code between two awaits.  Launches  *)
(* and close() are taken to succeed.                                        *)
(***************************************************************************)
RendererInit ==
    /\ JobInit
    /\ slides = << >>
    /\ CodecIdle
    /\ PathIdle
    /\ PresetIdle
    /\ PureIdle
    /\ engine = 0
    /\ batches \in [Batches -> [pc : {"idle"}, slides : 1..MaxSlides, i : {0},
                                 attempt : {1}, page : {0}, then : {"none"}]]
    /\ closed = {}

\* the frame of batch b after a step; the other batch's frame, the job and
\* the validator are untouched
Step(b, frame) ==
    /\ batches' = [batches EXCEPT ![b] = frame]
    /\ UNCHANGED << jobVars, codecVars, pathVars, presetVars, pureVars >>

\* renderPresentation is entered: "Initialize browser once for all slides"
BatchStart(b) ==
    /\ batches[b].pc = "idle"
    /\ Step(b, [batches[b] EXCEPT !.pc = "get_browser", !.then = "loop"])
    /\ UNCHANGED << engine, closed >>

\* where getBrowser's caller goes on: renderPresentation to its loop,
\* renderSlide to its page on the engine it was given
afterGetBrowser(frame, id) ==
    IF frame.then = "loop"
    THEN [frame EXCEPT !.pc = "loop", !.then = "none"]
    ELSE [frame EXCEPT !.pc = "slide", !.then = "none", !.page = id]

\* getBrowser up to its await: a connected engine is returned, else
\* puppeteer.launch is called
GetBrowser(b) ==
    /\ batches[b].pc = "get_browser"
    /\ IF engine # 0
       THEN Step(b, afterGetBrowser(batches[b], engine))
       ELSE Step(b, [batches[b] EXCEPT !.pc = "launching"])
    /\ UNCHANGED << engine, closed >>

\* the engines a page is open on
enginesInUse == { batches[b].page : b \in { c \in Batches : batches[c].pc = "slide" } }

\* the number of a new engine: the least one that neither the field nor a
\* page refers to
newEngine ==
    CHOOSE id \in 1..(Cardinality(Batches) + 1) :
        /\ id \notin enginesInUse \cup {engine}
        /\ \A other \in 1..(id - 1) : other \in enginesInUse \cup {engine}

\* puppeteer.launch returned: the new engine is stored in the field
LaunchDone(b) ==
    /\ batches[b].pc = "launching"
    /\ engine' = newEngine
    /\ Step(b, afterGetBrowser(batches[b], newEngine))
    /\ UNCHANGED closed

\* the loop head of renderPresentation: renderSlideWithRetry, renderSlide
RenderNext(b) ==
    /\ batches[b].pc = "loop"
    /\ IF batches[b].i < batches[b].slides
       THEN Step(b, [batches[b] EXCEPT !.pc = "get_browser", !.then = "slide",
                                       !.attempt = 1])
       ELSE Step(b, [batches[b] EXCEPT !.pc = "finally"])
    /\ UNCHANGED << engine, closed >>

\* the engines some batch has closed
closedEngines == { c[1] : c \in closed }

\* renderSlide's work on its page ends: the screenshot is written, or the
\* call fails; a closed engine writes no screenshot
RenderDone(b) ==
    /\ batches[b].pc = "slide"
    /\ \E outcome \in {"ok", "transient", "fatal"} :
          /\ outcome = "ok" => batches[b].page \notin closedEngines
          /\ IF outcome # "ok"
                /\ ShouldRetryRender(isRetryableRenderError(outcome), batches[b].attempt)
             THEN Step(b, [batches[b] EXCEPT !.pc = "retry_close", !.page = 0])
             ELSE Step(b, [batches[b] EXCEPT !.pc = "loop", !.page = 0,
                                             !.i = @ + 1, !.attempt = 1])
    /\ closed' = { c \in closed : c[1] \in enginesInUse' }
    /\ UNCHANGED engine

\* closeBrowser by batch b: the engine in the field is closed, the field cleared
closeShared(b) ==
    IF engine # 0
    THEN /\ closed' = closed \cup (IF engine \in enginesInUse
                                   THEN { << engine, b >> } ELSE {})
         /\ engine' = 0
    ELSE UNCHANGED << engine, closed >>

\* renderSlideWithRetry after its delay: closeBrowser, then the next attempt
CloseForRetry(b) ==
    /\ batches[b].pc = "retry_close"
    /\ closeShared(b)
    /\ Step(b, [batches[b] EXCEPT !.pc = "get_browser", !.then = "slide",
                                   !.attempt = @ + 1])

\* the finally block of renderPresentation
BatchFinally(b) ==
    /\ batches[b].pc = "finally"
    /\ closeShared(b)
    /\ Step(b, [batches[b] EXCEPT !.pc = "done"])

RendererNext ==
    \E b \in Batches :
        \/ BatchStart(b)
        \/ GetBrowser(b)
        \/ LaunchDone(b)
        \/ RenderNext(b)
        \/ RenderDone(b)
        \/ CloseForRetry(b)
        \/ BatchFinally(b)

RendererSpec == RendererInit /\ [][RendererNext]_vars

(***************************************************************************)
(* The temporary files of two export jobs running in one process.  Every   *)
(* step of a job succeeds: a failure only ends the job earlier.  A step is  *)
(* the code that names a file and works on it.                              *)
(***************************************************************************)
\* the last millisecond of the model's clock
MaxClock == 1

\* slide k of a presentation has a randomUUID() of its own
slideIdOf(presentation, k) == presentation * (MaxSlides + 1) + k

\* path.join(tempDir, `slide_${slideId}_${Date.now()}.mp3`)
narrationFile(slideId, now) == << "tts_audio", slideId, now, "mp3" >>
\* path.join(tempDir, `slide_${slideId}_${timestamp}.png`)
slideImageFile(slideId, now) == << "slide_images", slideId, now, "png" >>
\* path.join(tempDir, `slide_${i}_${Date.now()}.mp4`)
segmentFile(index, now) == << "temp_videos", index, now, "mp4" >>
\* path.join(tempDir, `concat_${Date.now()}.txt`)
concatListFile(now) == << "temp_videos", 0, now, "txt" >>
\* `presentation_${presentation.id}_${timestamp}.${videoOptions.format}`
finalFile(presentation, now, format) == << "videos", presentation, now, format >>

\* job j writes, reads or deletes the paths
touch(paths, j) ==
    access' = [p \in DOMAIN access \cup paths |->
                 (IF p \in DOMAIN access THEN access[p] ELSE {})
                 \cup (IF p \in paths THEN {j} ELSE {})]

\* the frame of job j after a step; the other job's frame, the export job of
\* the main model, the validator and the renderer are untouched
JobStep(j, frame) ==
    /\ jobs' = [jobs EXCEPT ![j] = frame]
    /\ UNCHANGED << jobVars, codecVars, rendererVars, presetVars, pureVars >>

\* two jobs export the same presentation or two presentations; a
\* presentation has one list of slides
PathInit ==
    /\ JobInit
    /\ slides = << >>
    /\ CodecIdle
    /\ RendererIdle
    /\ PresetIdle
    /\ PureIdle
    /\ clock = 0
    /\ jobs \in [ExportJobs -> [pc : {"narrate"}, presentation : {1, 2},
                                 n : 1..MaxSlides, format : {"mp4", "avi"},
                                 type : {"none", "crossfade"}, i : {0},
                                 audio : {<< >>}, images : {<< >>},
                                 segments : {<< >>}, out : {NoPath}]]
    /\ jobs["A"].presentation = 1
    /\ jobs["A"].presentation = jobs["B"].presentation
         => jobs["A"].n = jobs["B"].n
    /\ access = << >>

\* a millisecond passes
Tick ==
    /\ clock < MaxClock
    /\ clock' = clock + 1
    /\ UNCHANGED << jobs, access, jobVars, codecVars, rendererVars, presetVars, pureVars >>

\* generateSlideNarration of the next slide: the audio file is written
NameNarration(j) ==
    LET f    == jobs[j]
        path == narrationFile(slideIdOf(f.presentation, f.i + 1), clock)
    IN  /\ f.pc = "narrate"
        /\ touch({path}, j)
        /\ JobStep(j, [f EXCEPT !.audio = Append(@, path),
                                !.i = IF f.i + 1 = f.n THEN 0 ELSE f.i + 1,
                                !.pc = IF f.i + 1 = f.n THEN "render" ELSE "narrate"])
        /\ UNCHANGED clock

\* renderSlide of the next slide: the screenshot is written
NameImage(j) ==
    LET f    == jobs[j]
        path == slideImageFile(slideIdOf(f.presentation, f.i + 1), clock)
    IN  /\ f.pc = "render"
        /\ touch({path}, j)
        /\ JobStep(j, [f EXCEPT !.images = Append(@, path),
                                !.i = IF f.i + 1 = f.n THEN 0 ELSE f.i + 1,
                                !.pc = IF f.i + 1 = f.n THEN "output" ELSE "render"])
        /\ UNCHANGED clock

\* processVideoExport: "Generate output path for video"
NameOutput(j) ==
    LET f == jobs[j]
    IN  /\ f.pc = "output"
        /\ JobStep(j, [f EXCEPT !.out = finalFile(f.presentation, clock, f.format),
                                !.pc = "compose"])
        /\ UNCHANGED << clock, access >>

\* assemblePresentationVideo, step 1: the slide's image and audio are read,
\* its segment is written
NameSegment(j) ==
    LET f    == jobs[j]
        path == segmentFile(f.i, clock)
    IN  /\ f.pc = "compose"
        /\ touch({path, f.audio[f.i + 1], f.images[f.i + 1]}, j)
        /\ JobStep(j, [f EXCEPT !.segments = Append(@, path),
                                !.i = IF f.i + 1 = f.n THEN 0 ELSE f.i + 1,
                                !.pc = IF f.i + 1 = f.n THEN "join" ELSE "compose"])
        /\ UNCHANGED clock

\* step 2: the segments are read and the final file written; the demuxer
\* join writes, reads and deletes its list of segments
JoinFiles(j) ==
    LET f    == jobs[j]
        list == IF joinStrategy(f.n, [type |-> f.type]) = "concat-demuxer"
                THEN {concatListFile(clock)} ELSE {}
    IN  /\ f.pc = "join"
        /\ touch(Range(f.segments) \cup list \cup {f.out}, j)
        /\ JobStep(j, [f EXCEPT !.pc = "cleanup"])
        /\ UNCHANGED clock

\* step 3 and cleanupVideoFiles: segments, audio and images are deleted
DeleteTemporaries(j) ==
    LET f == jobs[j]
    IN  /\ f.pc = "cleanup"
        /\ touch(Range(f.segments) \cup Range(f.audio) \cup Range(f.images), j)
        /\ JobStep(j, [f EXCEPT !.pc = "done"])
        /\ UNCHANGED clock

PathNext ==
    \/ Tick
    \/ \E j \in ExportJobs :
          \/ NameNarration(j)
          \/ NameImage(j)
          \/ NameOutput(j)
          \/ NameSegment(j)
          \/ JoinFiles(j)
          \/ DeleteTemporaries(j)

PathSpec == PathInit /\ [][PathNext]_vars

(***************************************************************************)
(* The encoding profile of a sequence of export jobs in one process.       *)
(***************************************************************************)
Qualities == {"high", "medium", "low"}
ExportFormats == {"mp4", "avi", "mov"}

PresetInit ==
    /\ JobInit
    /\ slides = << >>
    /\ CodecIdle
    /\ RendererIdle
    /\ PathIdle
    /\ PresetIdle
    /\ PureIdle

\* processVideoExport, "Get quality settings": qualitySettings is the preset
\* object itself, and the format is assigned to it
selectQualitySettings(held, quality, format) ==
    IF format # "mp4"
    THEN [held EXCEPT ![quality].format = format]
    ELSE held

\* one job gets its profile and hands it to assemblePresentationVideo
GetQualitySettings ==
    \E quality \in Qualities, format \in ExportFormats :
        /\ presets' = selectQualitySettings(presets, quality, format)
        /\ handed' = [quality |-> quality, format |-> format,
                      profile |-> presets'[quality]]
        /\ UNCHANGED << jobVars, codecVars, rendererVars, pathVars, pureVars >>

PresetNext == GetQualitySettings

PresetSpec == PresetInit /\ [][PresetNext]_vars

(***************************************************************************)
(* generateAudioWithRetry: the text handed to the speech API.  A text is   *)
(* kept as the number of characters taken from the slide's narration text  *)
(* and the suffix appended to them.                                        *)
(***************************************************************************)
\* text.length > 4000 ? text.substring(0, 4000) ... : the cut-off length
MaxInputChars == 4000
\* narration texts are up to MaxExcess characters shorter or longer than the cut-off
MaxExcess == 30

SpeechTextLengths ==
    {0} \cup ((MaxInputChars - MaxExcess)..(MaxInputChars + MaxExcess))

\* text.length
length(text) == text.chars + Len(text.suffix)

\* text.substring(0, end) of a text read from a slide
substring(text, end) == [text EXCEPT !.chars = Min(end, text.chars)]

\* text + tail
concatText(text, tail) == [text EXCEPT !.suffix = text.suffix \o tail]

\* a cut that appends nothing
truncateText_bare(text) ==
    IF length(text) > MaxInputChars
    THEN substring(text, MaxInputChars)
    ELSE text

\* text.length > 4000 ? text.substring(0, 4000) + "..." : text
truncateText(text) ==
    IF length(text) > MaxInputChars
    THEN concatText(substring(text, MaxInputChars), "...")
    ELSE text

SpeechInit ==
    /\ JobInit
    /\ slides = << >>
    /\ CodecIdle
    /\ RendererIdle
    /\ PathIdle
    /\ PresetIdle
    /\ GraphIdle
    /\ \E n \in SpeechTextLengths :
          speech = [pc |-> "truncate", text |-> [chars |-> n, suffix |-> ""],
                    input |-> noText]

\* const truncatedText = ...
TruncateText ==
    /\ speech.pc = "truncate"
    /\ speech' = [speech EXCEPT !.input = truncateText(speech.text),
                                !.pc = "create"]
    /\ UNCHANGED << jobVars, codecVars, rendererVars, pathVars, presetVars, graph >>

\* openai.audio.speech.create({ ..., input: truncatedText, ... }) returns or throws
SpeechCreate ==
    /\ speech.pc = "create"
    /\ \E outcome \in {"returned", "threw"} :
          speech' = [speech EXCEPT !.pc = outcome]
    /\ UNCHANGED << jobVars, codecVars, rendererVars, pathVars, presetVars, graph >>

SpeechNext == TruncateText \/ SpeechCreate

SpeechSpec == SpeechInit /\ [][SpeechNext]_vars

(***************************************************************************)
(* buildCrossfadeFilters: the filter chain as the list of its nodes.  A    *)
(* label is << "input", k, stream >> for [k:v] and [k:a],                  *)
(* << "label", i, stream >> for [vi] and [ai], and << "output", 0, s >>    *)
(* for [output_v], [output_a] and (s = "") [output].                       *)
(***************************************************************************)
\* the largest number of segments a chain is built for
MaxSegments == 6
\* z.number().min(0).max(5): the longest transition the route accepts
MaxFadeSeconds == 5

\* a numbered label for every pair, the last one included
outputLabel_numbered(k, videoCount, stream) == << "label", k, stream >>

\* i === videoCount - 1 ? '[output_v]' : `[v${i}]`, and the same for audio
outputLabel(k, videoCount, stream) ==
    IF k = videoCount - 1
    THEN << "output", 0, stream >>
    ELSE << "label", k, stream >>

\* `${current}${next}xfade=transition=fade:duration=${duration}:offset=0${output};`
xfadeNode(current, next, duration, output) ==
    [filter |-> "xfade", inputs |-> << current, next >>, duration |-> duration,
     offset |-> 0, output |-> output]

\* `${current}${next}acrossfade=d=${duration}${output};`
acrossfadeNode(current, next, duration, output) ==
    [filter |-> "acrossfade", inputs |-> << current, next >>, duration |-> duration,
     offset |-> 0, output |-> output]

\* '[output_v][output_a]concat=n=1:v=1:a=1[output]'
finalConcatNode ==
    [filter |-> "concat",
     inputs |-> << << "output", 0, "v" >>, << "output", 0, "a" >> >>,
     duration |-> 0, offset |-> 0, output |-> << "output", 0, "" >>]

\* '[0:v][0:a]copy[output]'
copyNode ==
    [filter |-> "copy",
     inputs |-> << << "input", 0, "v" >>, << "input", 0, "a" >> >>,
     duration |-> 0, offset |-> 0, output |-> << "output", 0, "" >>]

GraphInit ==
    /\ JobInit
    /\ slides = << >>
    /\ CodecIdle
    /\ RendererIdle
    /\ PathIdle
    /\ PresetIdle
    /\ SpeechIdle
    /\ \E videoCount \in 1..MaxSegments, duration \in 0..MaxFadeSeconds :
          graph = [pc |-> "begin", videoCount |-> videoCount, duration |-> duration,
                   i |-> 0,
                   currentVideoLabel |-> << "input", 0, "v" >>,
                   currentAudioLabel |-> << "input", 0, "a" >>,
                   filterChain |-> << >>]

\* the early return for one video, or the initializers of the loop
BuildBegin ==
    /\ graph.pc = "begin"
    /\ graph' = IF graph.videoCount = 1
                THEN [graph EXCEPT !.filterChain = << copyNode >>, !.pc = "returned"]
                ELSE [graph EXCEPT !.i = 1, !.pc = "loop"]
    /\ UNCHANGED << jobVars, codecVars, rendererVars, pathVars, presetVars, speech >>

\* one iteration of for (let i = 1; i < videoCount; i++)
AppendCrossfadePair ==
    /\ graph.pc = "loop"
    /\ graph.i < graph.videoCount
    /\ graph' =
          [graph EXCEPT
             !.filterChain =
                 @ \o << xfadeNode(graph.currentVideoLabel,
                                   << "input", graph.i, "v" >>, graph.duration,
                                   outputLabel(graph.i, graph.videoCount, "v")),
                         acrossfadeNode(graph.currentAudioLabel,
                                        << "input", graph.i, "a" >>, graph.duration,
                                        outputLabel(graph.i, graph.videoCount, "a")) >>,
             !.currentVideoLabel = outputLabel(graph.i, graph.videoCount, "v"),
             !.currentAudioLabel = outputLabel(graph.i, graph.videoCount, "a"),
             !.i = graph.i + 1]
    /\ UNCHANGED << jobVars, codecVars, rendererVars, pathVars, presetVars, speech >>

\* "Combine final video and audio", and the return
AppendFinalConcat ==
    /\ graph.pc = "loop"
    /\ ~(graph.i < graph.videoCount)
    /\ graph' = [graph EXCEPT !.filterChain = @ \o << finalConcatNode >>,
                              !.pc = "returned"]
    /\ UNCHANGED << jobVars, codecVars, rendererVars, pathVars, presetVars, speech >>

GraphNext == BuildBegin \/ AppendCrossfadePair \/ AppendFinalConcat

GraphSpec == GraphInit /\ [][GraphNext]_vars

(***************************************************************************)
(* Properties.                                                             *)
(***************************************************************************)
\* the record is complete and ready, or is in phase error
Terminal(r) == (r.phase = "complete" /\ r.isReady) \/ r.phase = "error"

\* the record is complete and ready, or is in phase error with its error recorded
TerminalRecorded(r) ==
    (r.phase = "complete" /\ r.isReady) \/ (r.phase = "error" /\ r.error # Null)

trackedFields(r) == << r.progress, r.phase, r.error, r.isReady, r.filePath, r.fileSize >>

SchemaPhases == {"initializing", "tts", "rendering", "assembly", "complete", "error"}

phaseRank(phase) ==
    CASE phase = "initializing" -> 0
      [] phase = "tts"          -> 1
      [] phase = "rendering"    -> 2
      [] phase = "assembly"     -> 3
      [] phase = "complete"     -> 4
      [] OTHER                  -> 5

\* positions of the job before processVideoExport has built slideVideoInputs
BeforePairing ==
    {"idle", "processExportAsync", "processVideoExport", "tts_loop", "tts_speech",
     "tts_probe", "render_begin", "render_launch", "render_loop", "render_slide",
     "assembly_begin", "pairing"}

PairingDone == pc \notin BeforePairing

JobFailed == pc = "done" /\ thrown # Null

\* what a job that produced no narration clip fails with
NarrationFailures ==
    {"No slides found in presentation for video export",
     "Failed to generate any narration",
     "Failed to generate any audio narration for slides"}

\* the images, among the first min(|images|, |narrations|), that have a clip
matchedImages ==
    { k \in 1..Min(Len(slideImages), Len(narrationResults)) :
        \E j \in 1..Len(narrationResults) :
            narrationResults[j].slideId = slideImages[k].slideId }

RECURSIVE sumDurations(_)
sumDurations(inputs) ==
    IF inputs = << >> THEN 0 ELSE Head(inputs).duration + sumDurations(Tail(inputs))

AssemblyReturned == videoResult.videoPath # NoPath

\* positions of the job before assemblePresentationVideo is entered
BeforeAssembly == BeforePairing \cup {"paired", "assemble"}

\* assemblePresentationVideo was entered and its caller's frame is live
AssemblyEntered ==
    pc \notin BeforeAssembly \cup {"catch", "catch_status"} /\ ~JobFailed

SupportedTransitions == {"none", "crossfade", "fade-to-black"}

\* C1: the progress values written to an export record never decrease after
\* the 0 of its creation.
C1_ProgressNeverDecreases ==
    [][\A id \in DOMAIN exports : exports'[id].progress >= exports[id].progress]_vars

\* C2: once a failure of the job is recorded, the record's progress is the
\* progress recorded last before the failure, its phase is error and its
\* error field holds a message.
C2_FailureKeepsProgress ==
    JobFailed =>
        /\ exports[exportId].progress = failProgress
        /\ exports[exportId].phase = "error"
        /\ exports[exportId].error # Null

C4_PhaseStateMachine ==
    /\ [](\A id \in DOMAIN exports : exports[id].phase \in SchemaPhases)
    /\ [][\A id \in DOMAIN exports' \ DOMAIN exports :
             /\ exports'[id].phase = "initializing"
             /\ exports'[id].progress = 0
             /\ ~exports'[id].isReady]_vars
    /\ [][\A id \in DOMAIN exports :
             \/ exports'[id].phase = "error"
             \/ phaseRank(exports'[id].phase) >= phaseRank(exports[id].phase)]_vars

\* C5: every started job eventually has a terminal record (complete and
\* ready, or error with a message), and the request that started it was
\* answered 202: the failure is not thrown to it.
C5_JobEndsTerminal ==
    (exportId \in DOMAIN exports)
        ~> (pc = "done" /\ TerminalRecorded(exports[exportId]) /\ response = 202)

\* C5 witness: a job that failed inside assembly has its failure on the record.
C5_Witness ==
    /\ JobFailed
    /\ exports[exportId].phase = "error"
    /\ exports[exportId].error # Null
    /\ exportId \in DOMAIN jobProgress
    /\ response = 202

\* C6: a ready record has phase complete, progress 100, no error and a file path.
C6_ReadyImpliesComplete ==
    \A id \in DOMAIN exports :
        exports[id].isReady =>
            /\ exports[id].phase = "complete"
            /\ exports[id].progress = 100
            /\ exports[id].error = Null
            /\ exports[id].filePath # NoPath

\* C6 witness: the job's record is ready.
C6_Witness == exportId \in DOMAIN exports /\ exports[exportId].isReady

\* C7: on every exit path of a job whose narration produced clips (success,
\* zero images, zero pairs, a failure inside assembly), every narration and
\* image file the job created is deleted when the job has ended.
C7_TempFilesDeleted ==
    (pc = "done" /\ thrown \notin NarrationFailures)
        => \A path \in created : ~existsSync(path)

C9_PairsShareSlideId ==
    \A k \in 1..Len(slideVideoInputs) :
        \E a \in 1..Len(slideImages), b \in 1..Len(narrationResults) :
            /\ slideImages[a].slideId = narrationResults[b].slideId
            /\ slideVideoInputs[k].imagePath = slideImages[a].imagePath
            /\ slideVideoInputs[k].audioPath = narrationResults[b].audioPath

\* C9 witness: an input was built although the two lists differ at index 1.
C9_Witness ==
    /\ slideVideoInputs # << >>
    /\ slideImages[1].slideId # narrationResults[1].slideId

\* C10: assembly returns sum(di) - (n-1)*T for crossfade, sum(di) + (n-1)*T
\* for fade-to-black, and sum(di) for one segment or type none.
C10_TotalDuration ==
    AssemblyReturned =>
        LET n   == Len(slideVideoInputs)
            sum == sumDurations(slideVideoInputs)
            T   == validatedTransitions.duration
        IN  videoResult.totalDuration =
              CASE n = 1 \/ validatedTransitions.type = "none" -> sum
                [] validatedTransitions.type = "crossfade"     -> sum - (n - 1) * T
                [] OTHER                                       -> sum + (n - 1) * T

\* C10 witness: assembly returned for two segments joined by a crossfade of 1 s.
C10_Witness ==
    /\ AssemblyReturned
    /\ Len(slideVideoInputs) = 2
    /\ validatedTransitions = [type |-> "crossfade", duration |-> 1]
    /\ videoResult.totalDuration = sumDurations(slideVideoInputs) - 1

\* C11: assembly runs for every transition type of the schema; slide and wipe
\* are replaced by crossfade with the requested duration, the three supported
\* types are kept; a replaced request is joined by the crossfade filter graph
\* and its total duration is computed as a crossfade's.
C11_UnsupportedBecomesCrossfade ==
    AssemblyEntered =>
        LET requested == videoOptions.transition
            coerced   == requested.type \notin SupportedTransitions
            n         == Len(slideVideoInputs)
        IN  /\ validatedTransitions.duration = requested.duration
            /\ validatedTransitions.type =
                  IF coerced THEN "crossfade" ELSE requested.type
            /\ (coerced /\ encoder.command = "join" /\ n > 1)
                  => encoder.filters = "xfade"
            /\ (coerced /\ AssemblyReturned)
                  => videoResult.totalDuration =
                       sumDurations(slideVideoInputs) - (n - 1) * requested.duration

\* C11 witness: a job that asked for wipe returned a video of two segments
\* joined by the crossfade filter graph.
C11_Witness ==
    /\ AssemblyReturned
    /\ videoOptions.transition = [type |-> "wipe", duration |-> 1]
    /\ Len(slideVideoInputs) = 2
    /\ encoder.filters = "xfade"

\* C12: validating the codec and container of a profile twice gives what
\* validating it once gives, for every container (known, unknown or unset)
\* and every codec (or none).
C12_ValidationIdempotent ==
    Len(validated) = 2 => validated[2] = validated[1]

\* C12 witness: a profile that validation changed has been validated twice.
C12_Witness ==
    /\ Len(validated) = 2
    /\ validated[1].error = Null
    /\ validated[1].value # settings

\* the codecs the table accepts for a container; none for an unknown one
Accepted(format) ==
    IF format \in DOMAIN CODEC_CONTAINER_COMPATIBILITY
    THEN CODEC_CONTAINER_COMPATIBILITY[format]
    ELSE {}

\* a validated profile: unchanged when the requested codec is accepted by the
\* requested container, else changed only in codec and container, to a pair
\* the table accepts, and avi stays avi
ValidatedAsSpecified(s, r) ==
    IF requestedCodec(s) \in Accepted(requestedFormat(s))
    THEN r = s
    ELSE /\ r.preset = s.preset
         /\ r.videoCodec \in Accepted(r.format)
         /\ [videoCodec |-> r.videoCodec, format |-> r.format]
              = safeFallback(requestedFormat(s))
         /\ requestedFormat(s) = "avi" => r.format = "avi"

RECURSIVE idsWhere(_, _, _)
idsWhere(list, ids, k) ==
    IF k > Len(list) THEN << >>
    ELSE (IF list[k].id \in ids THEN << list[k].id >> ELSE << >>)
         \o idsWhere(list, ids, k + 1)

narrated(slideId) ==
    audioPath(slideId) \in DOMAIN files /\ files[audioPath(slideId)] > 0
rendered(slideId) == imagePath(slideId) \in DOMAIN files

narratedIds ==
    idsWhere(slides, { id \in 1..Len(slides) : narrated(id) }, 1)
renderedIds ==
    idsWhere(slides, { id \in 1..Len(slides) : rendered(id) }, 1)

slideIds(results) == [k \in 1..Len(results) |-> results[k].slideId]

\* the step that ends the batch whose loop is at label
BatchEnds(label) == pc = label /\ i = Len(slides) /\ pc' # label

BatchErrors == {"Failed to generate any narration", "Failed to render any slides"}

SpeechFails(kind) == pc = "tts_speech" /\ lastError' = kind

\* the narration of the slide ends with an error: no further call for it
SpeechGivesUp == pc' = "tts_loop" /\ i' = i + 1 /\ ttsErrors' = ttsErrors + 1

\* C16: the speech API is called at most three times per slide; a call is
\* repeated only after a rate-limit failure and only below three attempts; a
\* failure of another kind ends the slide after that one call, and so does
\* the third rate-limited failure.
C16_SpeechRetries ==
    [][ /\ pc' = "tts_speech" =>
              /\ attempt' \in 1..maxRetries
              /\ attempt' > 1 => (SpeechFails("rate_limit") /\ attempt' = attempt + 1)
        /\ SpeechFails("error") => SpeechGivesUp
        /\ (SpeechFails("rate_limit") /\ attempt = maxRetries) => SpeechGivesUp ]_vars

\* C16 witness: the third call for a slide was rate limited and the slide
\* ended with an error.
C16_Witness ==
    /\ pc = "tts_loop"
    /\ lastError = "rate_limit"
    /\ ttsErrors > 0

\* the ffmpeg command of the running assembly step fails with an error of the
\* given kind
TranscodeFails(kind) ==
    /\ pc \in {"asm_encode", "asm_concat"}
    /\ lastError' = kind
    /\ (pc' # pc \/ attempt' # attempt)

\* the failed command is started again
TranscodeRetried ==
    pc' = pc /\ attempt' = attempt + 1 /\ encoder'.running /\ thrown' = Null

C18_EveryTranscodeRetried ==
    [][ (TranscodeFails("transient") /\ attempt < maxRetries)
            => TranscodeRetried ]_vars

\* C19: rasterizing a slide takes at most three attempts; an attempt is
\* repeated only after a transient failure; the engine is closed before the
\* next attempt, which holds no connected engine and has one launched for it.
C19_RenderRetries ==
    [][ /\ pc' = "render_slide" => attempt' \in 1..maxRetries
        /\ (pc = "render_slide" /\ attempt' > attempt)
              => /\ lastError' = "transient"
                 /\ attempt' = attempt + 1
                 /\ browser' = Null
        /\ (pc = "render_slide" /\ lastError' = "fatal")
              => pc' = "render_loop" /\ renderErrors' = renderErrors + 1
        /\ (pc = "render_slide" /\ attempt > 1) => needsLaunch(browser) ]_vars

\* C19 witness: a slide is at its third attempt, the two before it having
\* failed with a transient error, and no engine is held.
C19_Witness ==
    /\ pc = "render_slide"
    /\ attempt = maxRetries
    /\ lastError = "transient"
    /\ browser = Null

\* C20: when two export jobs run their rasterization batches at the same
\* time in one process, the engine a batch has a slide rendering on is never
\* closed by the other batch.
C20_EngineNotClosedByOther ==
    \A b \in Batches :
        batches[b].pc = "slide" =>
            \A c \in closed : c[1] = batches[b].page => c[2] = b

\* C21: of two export jobs running at the same time, neither writes, reads
\* or deletes a temporary file path (narration audio, slide image, segment,
\* concat list, final output) that the other one wrote.
C21_FilesOwnedByOneJob ==
    \A p \in DOMAIN access : Cardinality(access[p]) <= 1

\* C22: over any sequence of export jobs, the profile handed to assembly is
\* the canned profile of the job's quality with the container of the job's
\* own format, whatever earlier jobs asked for, and the three canned
\* profiles are never modified.
C22_ProfileIsTheJobsOwn ==
    /\ handed # noJob =>
          handed.profile = [VIDEO_QUALITY_PRESETS[handed.quality]
                               EXCEPT !.format = handed.format]
    /\ presets = VIDEO_QUALITY_PRESETS

\* the phase a position of processVideoExport belongs to: 1 speech synthesis,
\* 2 slide rendering, 3 pairing and segment composition, 4 concatenation,
\* 5 everything after it (and every failure path), 0 before the first phase
phaseOrder(label) ==
    CASE label \in {"idle", "processExportAsync", "processVideoExport"} -> 0
      [] label \in {"tts_loop", "tts_speech", "tts_probe"} -> 1
      [] label \in {"render_begin", "render_launch", "render_loop",
                    "render_slide"} -> 2
      [] label \in {"assembly_begin", "pairing", "paired", "assemble",
                    "asm_loop", "asm_probe", "asm_encode"} -> 3
      [] label = "asm_concat" -> 4
      [] OTHER -> 5

speechInFlight == pc = "tts_speech"
renderInFlight == pc = "render_slide"
composeInFlight == encoder.running /\ encoder.command = "slide"
joinInFlight == encoder.running /\ encoder.command = "join"

\* C23: within one job the phases are strictly sequential and slides are
\* processed one at a time: the job never goes back to an earlier phase (no
\* render call before the last speech call has finished, no composition
\* before the rendering batch has returned), a speech call, a render call or
\* an encoder run is in flight only at its own position of its own phase,
\* each works on the one slide the loop index names, and concatenation
\* starts only after every paired slide has its segment.
C23_PhasesSequential ==
    /\ [][phaseOrder(pc') >= phaseOrder(pc)]_vars
    /\ [](/\ speechInFlight => phaseOrder(pc) = 1 /\ i < Len(slides)
          /\ renderInFlight => phaseOrder(pc) = 2 /\ i < Len(slides)
          /\ composeInFlight => /\ pc = "asm_encode"
                                /\ i < Len(slideVideoInputs)
                                /\ Len(slideVideos) = i
          /\ joinInFlight => /\ pc = "asm_concat"
                             /\ Len(slideVideos) = Len(slideVideoInputs))

\* the join runs over the segments of two slides
C23_Witness ==
    /\ joinInFlight
    /\ Len(slideVideos) = 2
    /\ Len(narrationResults) = 2
    /\ Len(slideImages) = 2

\* the value the in-memory tracker holds for the job, getVideoProgress(jobId)
getVideoProgress(jobId) ==
    IF jobId \in DOMAIN jobProgress
    THEN jobProgress[jobId]
    ELSE [progress |-> 0, status |-> "not-found"]

composingStatus(status) == status \in {"creating-slide-videos", "creating-slide-encoding"}

\* C24: inside assembly every progress value reported while the segments are
\* composed lies in 0..30, every value reported during concatenation lies in
\* 30..95, and 95 (cleaning up) and 100 (completed) are reported in that
\* order after concatenation: 95 follows a concatenation value, 100 follows 95.
C24_ProgressBands ==
    /\ [](/\ composingStatus(getVideoProgress(exportId).status)
                => getVideoProgress(exportId).progress \in 0..30
          /\ getVideoProgress(exportId).status = "concatenating-videos"
                => getVideoProgress(exportId).progress \in 30..95)
    /\ [][/\ getVideoProgress(exportId)'.status = "cleaning-up"
                => /\ getVideoProgress(exportId)'.progress = 95
                   /\ getVideoProgress(exportId).status
                         \in {"concatenating-videos", "cleaning-up"}
          /\ getVideoProgress(exportId)'.status = "completed"
                => /\ getVideoProgress(exportId)'.progress = 100
                   /\ getVideoProgress(exportId).status
                         \in {"cleaning-up", "completed"}]_vars

\* C25: in every reachable state the progress held for the job lies in
\* 0..100, in the assembly service's tracker (what getVideoProgress returns)
\* and on the export record.
C25_ProgressInRange ==
    /\ getVideoProgress(exportId).progress \in 0..100
    /\ \A id \in DOMAIN exports : exports[id].progress \in 0..100

\* C26 as claimed: the text passed to the speech API is at most 4000
\* characters long, and it is the original text when that is at most 4000
\* characters long.
C26_AtMost4000 ==
    speech.pc \in {"create", "returned", "threw"} =>
        /\ length(speech.input) <= MaxInputChars
        /\ length(speech.text) <= MaxInputChars => speech.input = speech.text

\* C26 as amended: the text passed to the speech API is at most 4003
\* characters long: it is the original text when that is at most 4000
\* characters long, and otherwise the first 4000 characters of it followed
\* by the three characters "...".
C26_AtMost4003 ==
    speech.pc \in {"create", "returned", "threw"} =>
        /\ length(speech.input) <= MaxInputChars + 3
        /\ length(speech.text) <= MaxInputChars => speech.input = speech.text
        /\ length(speech.text) > MaxInputChars =>
               /\ speech.input = [chars |-> MaxInputChars, suffix |-> "..."]
               /\ length(speech.input) = MaxInputChars + 3

\* C26 witness: the API was called with the cut of a text longer than 4000
C26_Witness ==
    /\ speech.pc = "returned"
    /\ length(speech.text) > MaxInputChars
    /\ length(speech.input) = MaxInputChars + 3

nodesOf(chain, filter) == { p \in 1..Len(chain) : chain[p].filter = filter }

\* the (position, slot) pairs of a chain that read the given label
usesOf(chain, label) ==
    { u \in (1..Len(chain)) \X {1, 2} : chain[u[1]].inputs[u[2]] = label }

\* C28: for n >= 2 segments the crossfade chain has exactly n-1 video
\* crossfade nodes and n-1 audio crossfade nodes, all with the requested
\* duration; pair k reads the output label of pair k-1 (input 0 for the
\* first pair) and segment k; every label is defined once and before it is
\* used; every input 0..n-1 is read exactly once per stream; and the
\* outputs of the last pair are the video and audio of the final output.
C28_CrossfadeGraph ==
    (graph.pc = "returned" /\ graph.videoCount >= 2) =>
        LET chain == graph.filterChain
            n == graph.videoCount
            last == Len(graph.filterChain)
        IN  /\ last = 2 * (n - 1) + 1
            /\ Cardinality(nodesOf(chain, "xfade")) = n - 1
            /\ Cardinality(nodesOf(chain, "acrossfade")) = n - 1
            /\ \A k \in 1..(n - 1) :
                  /\ chain[2 * k - 1].filter = "xfade"
                  /\ chain[2 * k].filter = "acrossfade"
                  /\ chain[2 * k - 1].duration = graph.duration
                  /\ chain[2 * k].duration = graph.duration
                  /\ chain[2 * k - 1].inputs =
                        << IF k = 1 THEN << "input", 0, "v" >>
                                    ELSE chain[2 * k - 3].output,
                           << "input", k, "v" >> >>
                  /\ chain[2 * k].inputs =
                        << IF k = 1 THEN << "input", 0, "a" >>
                                    ELSE chain[2 * k - 2].output,
                           << "input", k, "a" >> >>
            /\ \A p, q \in 1..last : p # q => chain[p].output # chain[q].output
            /\ \A p \in 1..last : \A slot \in {1, 2} :
                  IF chain[p].inputs[slot][1] = "input"
                  THEN chain[p].inputs[slot][2] \in 0..(n - 1)
                  ELSE \E q \in 1..(p - 1) : chain[q].output = chain[p].inputs[slot]
            /\ \A k \in 0..(n - 1) : \A stream \in {"v", "a"} :
                  Cardinality(usesOf(chain, << "input", k, stream >>)) = 1
            /\ chain[last].filter = "concat"
            /\ chain[last].inputs = << chain[last - 2].output, chain[last - 1].output >>
            /\ chain[last].output = << "output", 0, "" >>

\* C28 witness: the chain of three segments with a two-second crossfade
C28_Witness ==
    /\ graph.pc = "returned"
    /\ graph.videoCount = 3
    /\ graph.duration = 2
    /\ Len(graph.filterChain) = 5

\* C29: when the pairing loop is over, every slide that has both a narration
\* clip and a rendered image has exactly one SlideVideoInput, whatever
\* happened to the other slides.
C29_CompleteSlidesPaired ==
    pc = "paired" =>
        \A a \in 1..Len(slideImages), b \in 1..Len(narrationResults) :
            slideImages[a].slideId = narrationResults[b].slideId =>
                Cardinality({ k \in 1..Len(slideVideoInputs) :
                                /\ slideVideoInputs[k].imagePath = slideImages[a].imagePath
                                /\ slideVideoInputs[k].audioPath
                                      = narrationResults[b].audioPath }) = 1

\* C30: in every reachable state a persisted progress of 100 implies that
\* the export record is complete (ready, in phase complete): while isReady
\* is false the progress a polling client reads is below 100.
C30_FullProgressMeansReady ==
    \A id \in DOMAIN exports :
        exports[id].progress = 100 =>
            exports[id].isReady /\ exports[id].phase = "complete"

====
